---- MODULE Spec2Model ----
(***************************************************************************)
(* A model of the lisgo interpreter (a Go port of Norvig's Lispy).         *)
(* Two programs live in the repository: the full interpreter with chained  *)
(* environments, set! and lambda (lis.go), and the earlier calculator with *)
(* a single flat environment (lispycalc.go).  Both are package main.       *)
(*                                                                         *)
(* Go values of type interface{} are records with a tag field.  The heap   *)
(* of *Env objects is the sequence frames; an *Env is an index into it and *)
(* the nil pointer is 0.  A Go panic is a result with st = "panic"; nothing*)
(* in the repository recovers, so a panic ends the process.                *)
(***************************************************************************)
EXTENDS Integers, Sequences, FiniteSets, TLC

VARIABLES variant, frames, calcEnv, line, parsed, result, crashed, count

vars == <<variant, frames, calcEnv, line, parsed, result, crashed, count>>

(***************************************************************************)
(* Bounds of the model.                                                    *)
(***************************************************************************)
MaxLines == 3
MaxFrames == 4
MaxTokens == 4

(***************************************************************************)
(* Values: the dynamic types an interface{} holds in the interpreter.      *)
(***************************************************************************)
Nil == [tag |-> "nil"]
Num(n) == [tag |-> "int", n |-> n]
Sym(s) == [tag |-> "sym", s |-> s]
Bool(b) == [tag |-> "bool", b |-> b]
List(l) == [tag |-> "list", l |-> l]
Prim(name) == [tag |-> "prim", name |-> name]
Procedure(parms, body, env) ==
    [tag |-> "proc", parms |-> parms, body |-> body, env |-> env]

Env(inner, outer) == [inner |-> inner, outer |-> outer]

\* a Go map read: the zero value nil for a missing key
MapGet(m, k) == IF k \in DOMAIN m THEN m[k] ELSE Nil

\* a Go map write m[k] = v
MapPut(m, k, v) == [n \in (DOMAIN m) \cup {k} |-> IF n = k THEN v ELSE m[n]]

EmptyMap == [n \in {} |-> Nil]

\* results of the reader and of the evaluator
Ok(v, h) == [st |-> "ok", v |-> v, h |-> h, msg |-> ""]
Panic(m, h) == [st |-> "panic", v |-> Nil, h |-> h, msg |-> m]
IndexPanic(h) == Panic("index out of range", h)

ROk(v, rest) == [st |-> "ok", v |-> v, rest |-> rest, msg |-> ""]
RPanic(m) == [st |-> "panic", v |-> Nil, rest |-> <<>>, msg |-> m]

(***************************************************************************)
(* Reader.                                                                 *)
(***************************************************************************)
\* the tokens of the lines below that fmt.Sscan reads as an int, with the
\* int read; Sscan fails on every other token of those lines
IntTokens ==
    ("0" :> 0) @@ ("1" :> 1) @@ ("2" :> 2) @@ ("3" :> 3) @@ ("5" :> 5)
    @@ ("7" :> 7) @@ ("10" :> 10) @@ ("20" :> 20)

atom(token) ==
    IF token \in DOMAIN IntTokens THEN Num(IntTokens[token]) ELSE Sym(token)

pop(ts) ==
    IF Len(ts) = 0 THEN <<"", <<>>>> ELSE <<Head(ts), Tail(ts)>>

RECURSIVE readFromTokens(_)
RECURSIVE readList(_, _)

\* the loop taking the end of the tokens for a closing parenthesis
readListLenient(l, tokens) ==
    IF Len(tokens) = 0 THEN ROk(List(l), <<>>)
    ELSE IF tokens[1] = ")" THEN ROk(List(l), pop(tokens)[2])
    ELSE LET r == readFromTokens(tokens) IN
         IF r.st = "panic" THEN r ELSE readList(Append(l, r.v), r.rest)

\* the for loop of readFromTokens: l is the list built so far
readList(l, tokens) ==
    IF Len(tokens) = 0 THEN RPanic("index out of range")
    ELSE IF tokens[1] = ")" THEN ROk(List(l), pop(tokens)[2])
    ELSE LET r == readFromTokens(tokens) IN
         IF r.st = "panic" THEN r ELSE readList(Append(l, r.v), r.rest)

readFromTokens(tokens) ==
    IF Len(tokens) = 0 THEN RPanic("unexpected EOF while reading")
    ELSE LET token == pop(tokens)[1]
             rest == pop(tokens)[2]
         IN  IF token = "(" THEN readList(<<>>, rest)
             ELSE IF token = ")" THEN RPanic("unexpected )")
             ELSE ROk(atom(token), rest)

(***************************************************************************)
(* Environments.                                                           *)
(***************************************************************************)
RECURSIVE Find(_, _, _)
Find(v, env, h) ==
    IF MapGet(h[env].inner, v) # Nil \/ h[env].outer = 0 THEN env
    ELSE Find(v, h[env].outer, h)

standardEnv ==
    Env(("false" :> Bool(FALSE)) @@ ("true" :> Bool(TRUE)) @@ ("+" :> Prim("+")), 0)

globalEnv == 1

isSymbol(x) == x.tag = "sym"
isList(x) == x.tag = "list"
isPrim(x) == x.tag = "prim"
isProc(x) == x.tag = "proc"

\* isFalse as lispycalc.go has it, under the test of lis.go
isFalseNotNegated(x) == IF x.tag = "bool" THEN <<x.b, TRUE>> ELSE <<FALSE, FALSE>>

\* isFalse returns (!b, ok); the caller tests ok && b
isFalse(x) == IF x.tag = "bool" THEN <<~x.b, TRUE>> ELSE <<TRUE, FALSE>>

\* the func bound to + in standardEnv
primAdd(args, h) ==
    IF Len(args) < 2 THEN IndexPanic(h)
    ELSE IF args[1].tag # "int" \/ args[2].tag # "int"
         THEN Panic("+ needs numbers", h)
    ELSE Ok(Num(args[1].n + args[2].n), h)

\* toStrings: <<TRUE, strs>> or <<FALSE, panic message>>
toStrings(parms) ==
    IF ~isList(parms) THEN <<FALSE, "parms must be a list">>
    ELSE IF \E i \in 1..Len(parms.l) : ~isSymbol(parms.l[i])
         THEN <<FALSE, "parms needs symbols">>
    ELSE <<TRUE, [i \in 1..Len(parms.l) |-> parms.l[i].s]>>

newProcedure(parms, body, env, h) ==
    LET strs == toStrings(parms) IN
    IF strs[1] THEN Ok(Procedure(strs[2], body, env), h) ELSE Panic(strs[2], h)

\* the loop of newEnv: the map after binding parms[i..] to args[i..]
RECURSIVE bindParms(_, _, _, _)
bindParms(m, parms, args, i) ==
    IF i > Len(parms) THEN m
    ELSE bindParms(MapPut(m, parms[i], args[i]), parms, args, i + 1)

RECURSIVE eval(_, _, _)
RECURSIVE makeArgsFrom(_, _, _, _, _)

\* newEnv without its line env.outer = outer
newEnvNoOuter(parms, args, outer, h) ==
    IF Len(args) < Len(parms) THEN IndexPanic(h)
    ELSE Ok(Nil, Append(h, Env(bindParms(EmptyMap, parms, args, 1), 0)))

\* newEnv(parms, args, outer): the new frame is the last one of the heap
newEnv(parms, args, outer, h) ==
    IF Len(args) < Len(parms) THEN IndexPanic(h)
    ELSE Ok(Nil, Append(h, Env(bindParms(EmptyMap, parms, args, 1), outer)))

Call(proc, args, h) ==
    LET ne == newEnv(proc.parms, args, proc.env, h) IN
    IF ne.st = "panic" THEN ne ELSE eval(proc.body, Len(ne.h), ne.h)

\* the loop of makeArgs from index i on, args being the values so far
makeArgsFrom(l, i, args, env, h) ==
    IF i > Len(l) THEN Ok(List(args), h)
    ELSE LET r == eval(l[i], env, h) IN
         IF r.st = "panic" THEN r
         ELSE makeArgsFrom(l, i + 1, Append(args, r.v), env, r.h)

\* makeArgs undoing the effects of the arguments when one of them panics
makeArgsRollback(l, env, h) ==
    LET r == makeArgsFrom(l, 1, <<>>, env, h) IN
    IF r.st = "panic" THEN Panic(r.msg, h) ELSE r

makeArgs(l, env, h) == makeArgsFrom(l, 1, <<>>, env, h)

evalSymbol(str, env, h) == Ok(MapGet(h[Find(str, env, h)].inner, str), h)

evalQuote(l, env, h) == IF Len(l) < 2 THEN IndexPanic(h) ELSE Ok(l[2], h)

evalIf(l, env, h) ==
    IF Len(l) < 4 THEN IndexPanic(h)
    ELSE LET r == eval(l[2], env, h) IN
         IF r.st = "panic" THEN r
         ELSE IF isFalse(r.v)[2] /\ isFalse(r.v)[1] THEN eval(l[4], env, r.h)
         ELSE eval(l[3], env, r.h)

\* define confused with set!: writes the frame Find locates
evalDefineFound(l, env, h) ==
    IF Len(l) < 3 THEN IndexPanic(h)
    ELSE IF ~isSymbol(l[2]) THEN Panic("define needs a symbol", h)
    ELSE LET r == eval(l[3], env, h) IN
         IF r.st = "panic" THEN r
         ELSE Ok(r.v, [r.h EXCEPT ![Find(l[2].s, env, r.h)].inner =
                                     MapPut(@, l[2].s, r.v)])

evalDefine(l, env, h) ==
    IF Len(l) < 3 THEN IndexPanic(h)
    ELSE IF ~isSymbol(l[2]) THEN Panic("define needs a symbol", h)
    ELSE LET r == eval(l[3], env, h) IN
         IF r.st = "panic" THEN r
         ELSE Ok(r.v, [r.h EXCEPT ![env].inner = MapPut(@, l[2].s, r.v)])

evalSet(l, env, h) ==
    IF Len(l) < 3 THEN IndexPanic(h)
    ELSE IF ~isSymbol(l[2]) THEN Panic("set! needs a symbol", h)
    ELSE LET e == Find(l[2].s, env, h)
             r == eval(l[3], env, h)
         IN  IF r.st = "panic" THEN r
             ELSE Ok(r.v, [r.h EXCEPT ![e].inner = MapPut(@, l[2].s, r.v)])

evalLambda(l, env, h) ==
    IF Len(l) < 3 THEN IndexPanic(h) ELSE newProcedure(l[2], l[3], env, h)

evalApply(l, env, h) ==
    LET car == eval(l[1], env, h) IN
    IF car.st = "panic" THEN car
    ELSE LET args == makeArgs(Tail(l), env, car.h) IN
         IF args.st = "panic" THEN args
         ELSE IF isPrim(car.v) THEN primAdd(args.v.l, args.h)
         ELSE IF isProc(car.v) THEN Call(car.v, args.v.l, args.h)
         ELSE Ok(Nil, args.h)

eval(x, env, h) ==
    IF isSymbol(x) THEN evalSymbol(x.s, env, h)
    ELSE IF ~isList(x) THEN Ok(x, h)
    ELSE IF Len(x.l) = 0 THEN Panic("empty list", h)
    ELSE IF isSymbol(x.l[1]) /\ x.l[1].s = "quote" THEN evalQuote(x.l, env, h)
    ELSE IF isSymbol(x.l[1]) /\ x.l[1].s = "if" THEN evalIf(x.l, env, h)
    ELSE IF isSymbol(x.l[1]) /\ x.l[1].s = "define" THEN evalDefine(x.l, env, h)
    ELSE IF isSymbol(x.l[1]) /\ x.l[1].s = "set!" THEN evalSet(x.l, env, h)
    ELSE IF isSymbol(x.l[1]) /\ x.l[1].s = "lambda" THEN evalLambda(x.l, env, h)
    ELSE evalApply(x.l, env, h)

(***************************************************************************)
(* The calculator (lispycalc.go): one flat map, no set!, no lambda.        *)
(***************************************************************************)
standardEnvCalc ==
    ("false" :> Bool(FALSE)) @@ ("true" :> Bool(TRUE)) @@ ("+" :> Prim("+"))

\* isFalse returns (b, ok); the caller tests ok && !b
isFalseCalc(x) == IF x.tag = "bool" THEN <<x.b, TRUE>> ELSE <<FALSE, FALSE>>

RECURSIVE evalCalc(_, _)
RECURSIVE makeArgsFromCalc(_, _, _, _)

makeArgsFromCalc(l, i, args, env) ==
    IF i > Len(l) THEN Ok(List(args), env)
    ELSE LET r == evalCalc(l[i], env) IN
         IF r.st = "panic" THEN r
         ELSE makeArgsFromCalc(l, i + 1, Append(args, r.v), r.h)

makeArgsCalc(l, env) == makeArgsFromCalc(l, 1, <<>>, env)

evalIfCalc(l, env) ==
    IF Len(l) < 4 THEN IndexPanic(env)
    ELSE LET r == evalCalc(l[2], env) IN
         IF r.st = "panic" THEN r
         ELSE IF isFalseCalc(r.v)[2] /\ ~isFalseCalc(r.v)[1]
              THEN evalCalc(l[4], r.h)
         ELSE evalCalc(l[3], r.h)

evalDefineCalc(l, env) ==
    IF Len(l) < 3 THEN IndexPanic(env)
    ELSE IF ~isSymbol(l[2]) THEN Panic("define needs a symbol", env)
    ELSE LET r == evalCalc(l[3], env) IN
         IF r.st = "panic" THEN r ELSE Ok(r.v, MapPut(r.h, l[2].s, r.v))

evalApplyCalc(l, env) ==
    LET car == evalCalc(l[1], env) IN
    IF car.st = "panic" THEN car
    ELSE IF ~isPrim(car.v) THEN Panic("not a procedure", car.h)
    ELSE LET args == makeArgsCalc(Tail(l), car.h) IN
         IF args.st = "panic" THEN args ELSE primAdd(args.v.l, args.h)

\* in the results of evalCalc the field h is the map env after the evaluation
evalCalc(x, env) ==
    IF isSymbol(x) THEN Ok(MapGet(env, x.s), env)
    ELSE IF ~isList(x) THEN Ok(x, env)
    ELSE IF Len(x.l) = 0 THEN Panic("empty list", env)
    ELSE IF ~isSymbol(x.l[1]) THEN Ok(Nil, env)
    ELSE IF x.l[1].s = "quote"
         THEN (IF Len(x.l) < 2 THEN IndexPanic(env) ELSE Ok(x.l[2], env))
    ELSE IF x.l[1].s = "if" THEN evalIfCalc(x.l, env)
    ELSE IF x.l[1].s = "define" THEN evalDefineCalc(x.l, env)
    ELSE evalApplyCalc(x.l, env)

(***************************************************************************)
(* The lines typed at the prompt, as the token sequences tokenize makes of *)
(* them.                                                                   *)
(***************************************************************************)
Lines ==
    { <<"(", "define", "a", "10", ")">>,
      <<"(", "set!", "a", "20", ")">>,
      <<"(", "set!", "z", "1", ")">>,
      <<"a">>,
      <<"(", "define", "f", "(", "lambda", "(", ")", "a", ")", ")">>,
      <<"(", "(", "lambda", "(", "a", ")", "(", "f", ")", ")", "7", ")">>,
      <<"(", "(", "lambda", "(", "b", ")", "(", "define", "a", "5", ")", ")", "1", ")">>,
      <<"(", "(", "lambda", "(", "b", ")", "(", "set!", "a",
             "(", "define", "a", "5", ")", ")", ")", "0", ")">>,
      <<"(", "(", "lambda", "(", "b", ")", "b", ")", "1", "2", ")">>,
      <<"(", "(", "lambda", "(", "b", ")", "b", ")", ")">>,
      <<"(", "+", "1", "2", ")">>,
      <<"(", "+", "1", "2", "3", ")">>,
      <<"(", "+", "(", "define", "a", "1", ")", "(", ")", ")">>,
      <<"(", "if", "false", "(", "define", "a", "1", ")", "2", ")">>,
      <<"(", "if", "true", "1", "2", ")">>,
      <<"(", "define", "false", "1", ")">>,
      <<"(", "1">>,
      <<")">> }

LinesCalc ==
    { <<"(", "define", "a", "10", ")">>,
      <<"a">>,
      <<"z">>,
      <<"(", "+", "1", "2", ")">>,
      <<"(", "+", "a", "a", ")">>,
      <<"(", "quote", "(", ")", ")">>,
      <<"(", "if", "false", "(", "define", "a", "1", ")", "2", ")">>,
      <<"(", "if", "true", "1", "(", "define", "a", "2", ")", ")">>,
      <<"(", "if", "a", "1", "2", ")">>,
      <<"(", "define", "false", "1", ")">>,
      <<"(", "define", "true", "false", ")">>,
      <<"(", "a", "1", ")">>,
      <<"(", "1">>,
      <<")">> }

\* the token sequences handed to the reader on its own
TokenAlphabet == {"(", ")", "1", "a"}
TokenSeqs == UNION {[1..n -> TokenAlphabet] : n \in 0..MaxTokens}

NotRead == [st |-> "none", v |-> Nil, rest |-> <<>>, msg |-> ""]
NoResult == [st |-> "none", v |-> Nil, msg |-> ""]
Outcome(r) == [st |-> r.st, v |-> r.v, msg |-> r.msg]

(***************************************************************************)
(* The programs.                                                           *)
(***************************************************************************)
Init ==
    /\ variant \in {"lis", "lispycalc"}
    /\ frames = <<standardEnv>>
    /\ calcEnv = standardEnvCalc
    /\ line = <<>>
    /\ parsed = NotRead
    /\ result = NoResult
    /\ crashed = FALSE
    /\ count = 0

\* one turn of the loop of repl in lis.go
repl ==
    /\ variant = "lis"
    /\ ~crashed
    /\ count < MaxLines
    /\ \E ln \in Lines :
         LET p == readFromTokens(ln)
             r == IF p.st = "panic" THEN Panic(p.msg, frames)
                  ELSE eval(p.v, globalEnv, frames)
         IN  /\ Len(r.h) <= MaxFrames
             /\ line' = ln
             /\ parsed' = p
             /\ result' = Outcome(r)
             /\ frames' = r.h
             /\ crashed' = (r.st = "panic")
    /\ count' = count + 1
    /\ UNCHANGED <<variant, calcEnv>>

\* one turn of the loop of repl in lispycalc.go
replCalc ==
    /\ variant = "lispycalc"
    /\ ~crashed
    /\ count < MaxLines
    /\ \E ln \in LinesCalc :
         LET p == readFromTokens(ln)
             r == IF p.st = "panic" THEN Panic(p.msg, calcEnv)
                  ELSE evalCalc(p.v, calcEnv)
         IN  /\ line' = ln
             /\ parsed' = p
             /\ result' = Outcome(r)
             /\ calcEnv' = r.h
             /\ crashed' = (r.st = "panic")
    /\ count' = count + 1
    /\ UNCHANGED <<variant, frames>>

Next == repl \/ replCalc

Spec == Init /\ [][Next]_vars

\* the reader on its own: dump(s) of the driver t, on any token sequence
InitRead ==
    /\ variant = "lis"
    /\ frames = <<standardEnv>>
    /\ calcEnv = standardEnvCalc
    /\ line \in TokenSeqs
    /\ parsed = NotRead
    /\ result = NoResult
    /\ crashed = FALSE
    /\ count = 0

dump ==
    /\ parsed = NotRead
    /\ parsed' = readFromTokens(line)
    /\ crashed' = (parsed'.st = "panic")
    /\ UNCHANGED <<variant, frames, calcEnv, line, result, count>>

NextRead == dump

SpecRead == InitRead /\ [][NextRead]_vars

(***************************************************************************)
(* Vocabulary of the properties.                                           *)
(***************************************************************************)
Names == {"a", "b", "f", "z", "false", "+"}

\* the innermost frame of the chain from env whose map has the key name,
\* 0 when no frame of the chain has it
RECURSIVE InnermostBinding(_, _, _)
InnermostBinding(name, env, h) ==
    IF env = 0 THEN 0
    ELSE IF name \in DOMAIN h[env].inner THEN env
    ELSE InnermostBinding(name, h[env].outer, h)

DefineForm(name, x) == List(<<Sym("define"), Sym(name), x>>)
SetForm(name, x) == List(<<Sym("set!"), Sym(name), x>>)
LambdaForm(parms, body) ==
    List(<<Sym("lambda"), List([i \in 1..Len(parms) |-> Sym(parms[i])]), body>>)
IfForm(test, conseq, alt) == List(<<Sym("if"), test, conseq, alt>>)
App(head, args) == List(<<head>> \o args)

LineDefineA10 == <<"(", "define", "a", "10", ")">>
LineSetZ == <<"(", "set!", "z", "1", ")">>
LineDefineInCall ==
    <<"(", "(", "lambda", "(", "b", ")", "(", "define", "a", "5", ")", ")", "1", ")">>

\* C1: evaluating a Symbol yields the value of the innermost frame of the
\* chain that binds the name, and fails when no frame of the chain binds it
\* (in the calculator: the value of the flat map, or a failure).
C1_LookupInnermostOrFail ==
    /\ variant = "lis" =>
         \A e \in DOMAIN frames : \A n \in Names :
           LET r == eval(Sym(n), e, frames)
               b == InnermostBinding(n, e, frames)
           IN  IF b # 0 THEN r.st = "ok" /\ r.v = frames[b].inner[n]
               ELSE r.st = "panic"
    /\ variant = "lispycalc" =>
         \A n \in Names :
           LET r == evalCalc(Sym(n), calcEnv)
           IN  IF n \in DOMAIN calcEnv THEN r.st = "ok" /\ r.v = calcEnv[n]
               ELSE r.st = "panic"

\* C2: (set! name expr) typed at the prompt while no frame binds name fails
\* and leaves name unbound in every frame.
C2_SetUnboundFails ==
    [][\A n \in Names :
         ( /\ variant = "lis"
           /\ count' = count + 1
           /\ parsed'.st = "ok"
           /\ parsed'.v = SetForm(n, Num(1))
           /\ InnermostBinding(n, globalEnv, frames) = 0 )
         => ( /\ crashed'
              /\ \A i \in DOMAIN frames' : n \notin DOMAIN frames'[i].inner )]_vars

\* the expressions whose value a define binds in C3
DefExprs ==
    { Num(5), Sym("a"), Sym("z"), LambdaForm(<<>>, Sym("a")),
      SetForm("a", Num(7)), DefineForm("b", Num(2)),
      App(LambdaForm(<<"b">>, Sym("b")), <<Num(3)>>) }

\* C3: (define name expr) in any frame returns the value of expr and changes,
\* on top of what evaluating expr does, only the map of that frame, where
\* name now holds the value; every other frame is left as expr left it.
C3_DefineCurrentFrameOnly ==
    variant = "lis" =>
      /\ \A e \in DOMAIN frames : \A n \in Names : \A x \in DefExprs :
           LET r1 == eval(x, e, frames)
               r == eval(DefineForm(n, x), e, frames)
           IN  r1.st = "ok" =>
                 /\ r.st = "ok"
                 /\ r.v = r1.v
                 /\ DOMAIN r.h = DOMAIN r1.h
                 /\ \A i \in DOMAIN r.h :
                      IF i = e
                      THEN /\ r.h[i].outer = r1.h[i].outer
                           /\ r.h[i].inner = MapPut(r1.h[i].inner, n, r1.v)
                      ELSE r.h[i] = r1.h[i]
      /\ line = LineDefineA10 =>
           result.v = Num(10) /\ frames[globalEnv].inner["a"] = Num(10)

\* a define ran in a call frame while the global frame binds the same name
C3_Witness ==
    /\ variant = "lis"
    /\ line = LineDefineInCall
    /\ result.st = "ok"
    /\ result.v = Num(5)
    /\ MapGet(frames[globalEnv].inner, "a") = Num(10)
    /\ \E e \in DOMAIN frames :
         e # globalEnv /\ MapGet(frames[e].inner, "a") = Num(5)

LineDefineF == <<"(", "define", "f", "(", "lambda", "(", ")", "a", ")", ")">>
LineCallF == <<"(", "(", "lambda", "(", "a", ")", "(", "f", ")", ")", "7", ")">>

\* C4: a call of a closure whose body is a free variable yields what that
\* variable holds, at the time of the call, in the chain of the frame the
\* closure captured, whatever the frame the call is made from binds; the
\* frame the body runs in is new and its outer link is the captured frame.
C4_ClosureSharesCapturedFrame ==
    variant = "lis" =>
      /\ \A e \in DOMAIN frames : \A n \in Names :
           LET p == eval(Sym(n), e, frames).v
               r == eval(App(Sym(n), <<>>), e, frames)
           IN  ( /\ isProc(p)
                 /\ p.parms = <<>>
                 /\ isSymbol(p.body) )
               => /\ r.st = "ok"
                  /\ r.v = eval(p.body, p.env, frames).v
                  /\ Len(r.h) = Len(frames) + 1
                  /\ r.h[Len(r.h)] = Env(EmptyMap, p.env)
                  /\ \A i \in DOMAIN frames : r.h[i] = frames[i]
      /\ (line = LineCallF /\ isProc(MapGet(frames[globalEnv].inner, "f")))
           => /\ result.st = "ok"
              /\ result.v = MapGet(frames[globalEnv].inner, "a")

\* f was made before a was defined and is called from a frame that binds a
\* to 7: the call yields the 10 of the captured global frame
C4_Witness ==
    /\ variant = "lis"
    /\ line = LineCallF
    /\ isProc(MapGet(frames[globalEnv].inner, "f"))
    /\ frames[globalEnv].inner["f"].env = globalEnv
    /\ MapGet(frames[globalEnv].inner, "a") = Num(10)
    /\ result.v = Num(10)
    /\ \E e \in DOMAIN frames : MapGet(frames[e].inner, "a") = Num(7)

TestExprs ==
    { Sym("false"), Sym("true"), Sym("a"), Sym("z"), Sym("+"), Num(0), Num(1),
      List(<<Sym("quote"), List(<<>>)>>), LambdaForm(<<>>, Num(1)),
      DefineForm("b", Bool(FALSE)) }

BranchExprs == { Num(1), Num(2), DefineForm("a", Num(1)), DefineForm("b", Num(2)) }

LineIfFalse == <<"(", "if", "false", "(", "define", "a", "1", ")", "2", ")">>

\* C5: in both programs (if test conseq alt) is the evaluation of alt when
\* test evaluates to the Boolean false and the evaluation of conseq for any
\* other value, in the environment the test left: only the taken branch has
\* effects; with false rebound to a non-false value (if false ...) takes conseq.
C5_IfOnlyBooleanFalseIsFalsy ==
    /\ variant = "lis" =>
         /\ \A e \in DOMAIN frames :
              \A t \in TestExprs : \A c \in BranchExprs : \A a \in BranchExprs :
                LET rt == eval(t, e, frames)
                    r == eval(IfForm(t, c, a), e, frames)
                IN  rt.st = "ok" =>
                      r = eval(IF rt.v = Bool(FALSE) THEN a ELSE c, e, rt.h)
         /\ (line = LineIfFalse /\ ~crashed) =>
              IF frames[globalEnv].inner["false"] = Bool(FALSE)
              THEN result.v = Num(2) ELSE result.v = Num(1)
    /\ variant = "lispycalc" =>
         /\ \A t \in TestExprs : \A c \in BranchExprs : \A a \in BranchExprs :
              LET rt == evalCalc(t, calcEnv)
                  r == evalCalc(IfForm(t, c, a), calcEnv)
              IN  rt.st = "ok" =>
                    r = evalCalc(IF rt.v = Bool(FALSE) THEN a ELSE c, rt.h)
         /\ (line = LineIfFalse /\ ~crashed) =>
              IF calcEnv["false"] = Bool(FALSE)
              THEN result.v = Num(2) ELSE result.v = Num(1)

\* the calculator evaluated (if false (define a 1) 2) with false rebound to 1
\* and took the consequent
C5_Witness ==
    /\ variant = "lispycalc"
    /\ line = LineIfFalse
    /\ calcEnv["false"] = Num(1)
    /\ result.st = "ok"
    /\ result.v = Num(1)
    /\ MapGet(calcEnv, "a") = Num(1)

\* the integer literals 1..n as an argument list
Literals(n) == [i \in 1..n |-> Num(i)]

\* C6: a closure applied to a number of arguments other than its number of
\* parameters fails; it runs its body, on the positional bindings, only when
\* the two numbers agree.
C6_ClosureArityMismatchFails ==
    (variant = "lis" /\ parsed.st = "ok" /\ result.st # "none") =>
      \A m \in 0..2 : \A n \in 0..3 :
        LET parms == SubSeq(<<"b", "c">>, 1, m)
            body == IF m = 0 THEN Num(0) ELSE Sym("b")
        IN  parsed.v = App(LambdaForm(parms, body), Literals(n)) =>
              IF n = m
              THEN result.st = "ok" /\ result.v = (IF m = 0 THEN Num(0) ELSE Num(1))
              ELSE crashed

\* C7: + yields the sum when applied to exactly two Integers and fails on
\* every other argument sequence.
C7_AddNeedsExactlyTwoIntegers ==
    (variant = "lis" /\ parsed.st = "ok" /\ result.st # "none") =>
      \A n \in 0..3 :
        parsed.v = App(Sym("+"), Literals(n)) =>
          IF n = 2 THEN result.st = "ok" /\ result.v = Num(3) ELSE crashed

\* the length of the balanced form the tokens start with, by counting depth;
\* 0 when the tokens start with no balanced form
RECURSIVE CloserAt(_, _, _)
CloserAt(tokens, i, depth) ==
    IF i > Len(tokens) THEN 0
    ELSE IF tokens[i] = "(" THEN CloserAt(tokens, i + 1, depth + 1)
    ELSE IF tokens[i] = ")"
         THEN (IF depth = 1 THEN i ELSE CloserAt(tokens, i + 1, depth - 1))
    ELSE CloserAt(tokens, i + 1, depth)

FirstFormLen(tokens) ==
    IF Len(tokens) = 0 THEN 0
    ELSE IF tokens[1] = ")" THEN 0
    ELSE IF tokens[1] = "(" THEN CloserAt(tokens, 2, 1)
    ELSE 1

\* the tokens a value is written with
RECURSIVE Unparse(_)
RECURSIVE UnparseAll(_, _)
UnparseAll(l, i) ==
    IF i > Len(l) THEN <<>> ELSE Unparse(l[i]) \o UnparseAll(l, i + 1)

Unparse(v) ==
    IF v.tag = "int" THEN <<CHOOSE t \in DOMAIN IntTokens : IntTokens[t] = v.n>>
    ELSE IF v.tag = "sym" THEN <<v.s>>
    ELSE <<"(">> \o UnparseAll(v.l, 1) \o <<")">>

\* C8: the reader fails on the empty token sequence, on a first token ")"
\* and on a "(" that the tokens never close; on tokens that start with a
\* balanced form it returns the value of that form and the tokens after it.
C8_ReadFailsOrReturnsFirstForm ==
    parsed.st # "none" =>
      LET k == FirstFormLen(line) IN
      IF k = 0 THEN parsed.st = "panic"
      ELSE /\ parsed.st = "ok"
           /\ Unparse(parsed.v) = SubSeq(line, 1, k)
           /\ parsed.rest = SubSeq(line, k + 1, Len(line))

\* the reader returned a list and left tokens over
C8_Witness ==
    /\ line \in TokenSeqs
    /\ parsed.st = "ok"
    /\ parsed.v.tag = "list"
    /\ Len(parsed.v.l) > 0
    /\ Len(parsed.rest) > 0

\* the reader failed on a nested list the tokens never close
C8_WitnessUnclosed ==
    /\ line = <<"(", "(", "1", ")">>
    /\ parsed.st = "panic"

EffectExprs ==
    { DefineForm("a", Num(1)), SetForm("a", Num(2)), DefineForm("b", Num(3)) }

FailExprs ==
    { List(<<>>), List(<<Sym("quote")>>), App(Sym("+"), <<Num(1)>>),
      App(Sym("+"), <<DefineForm("f", Num(5)), List(<<>>)>>),
      IfForm(DefineForm("f", Num(1)), List(<<>>), Num(2)),
      App(LambdaForm(<<"b", "c">>, Sym("b")), <<Num(1)>>) }

LineDefineThenFail == <<"(", "+", "(", "define", "a", "1", ")", "(", ")", ")">>

\* C9: when an argument fails after an earlier argument had an effect, the
\* application fails and the frames are those the failing argument left,
\* in which the name the earlier argument bound still holds the value it
\* bound; nothing is undone.
C9_EffectsBeforeFailurePersist ==
    variant = "lis" =>
      /\ \A e \in DOMAIN frames : \A x1 \in EffectExprs : \A x2 \in FailExprs :
           LET r1 == eval(x1, e, frames)
               r2 == eval(x2, e, r1.h)
               r == eval(App(Sym("+"), <<x1, x2>>), e, frames)
           IN  (r1.st = "ok" /\ r2.st = "panic") =>
                 /\ r.st = "panic"
                 /\ r.h = r2.h
                 /\ eval(x1.l[2], e, r.h).v = r1.v
      /\ (line = LineDefineThenFail /\ isPrim(frames[globalEnv].inner["+"])) =>
           /\ crashed
           /\ MapGet(frames[globalEnv].inner, "a") = Num(1)

\* the process died on (+ (define a 1) ()) and a is bound to 1
C9_Witness ==
    /\ variant = "lis"
    /\ line = LineDefineThenFail
    /\ crashed
    /\ result.msg = "empty list"
    /\ MapGet(frames[globalEnv].inner, "a") = Num(1)

LineSetDefine ==
    <<"(", "(", "lambda", "(", "b", ")", "(", "set!", "a",
           "(", "define", "a", "5", ")", ")", ")", "0", ")">>

\* C10: (set! a (define a 5)) in a call frame, while only the global frame
\* binds a, writes the call frame and leaves the global binding of a as it was.
C10_SetLocatesFrameAfterExpr ==
    [][( /\ variant = "lis"
         /\ count' = count + 1
         /\ line' = LineSetDefine
         /\ "a" \in DOMAIN frames[globalEnv].inner )
       => ( /\ ~crashed'
            /\ frames'[Len(frames')].inner["a"] = Num(5)
            /\ frames'[globalEnv].inner["a"] = frames[globalEnv].inner["a"] )]_vars

====
